---- MODULE Spec2Model ----
(***************************************************************************)
(* Model of update-modrinth-deps (src/main.py): the stability-aware        *)
(* version selector, the gradle.properties writer and the per-dependency   *)
(* branch / pull-request reconciler driven by main's loop.                 *)
(***************************************************************************)
EXTENDS Integers, Sequences, FiniteSets, TLC

(***************************************************************************)
(* Bounds of the model.                                                    *)
(***************************************************************************)
\* longest registry response explored by the selector specification
MaxVersions == 3
\* longest gradle.properties text, in characters, explored by the writer
\* specification
MaxText == 5
\* longest registry response explored by the run specification
MaxResponse == 2

(***************************************************************************)
(* Values shared by the specifications.                                    *)
(***************************************************************************)
\* Python's None (props.get(prop_key) of an absent key)
None == "<None>"
\* a release object without a "version_type" field
NoType == "<absent>"

\* version_type values a registry response may carry: the three known
\* tiers, one the table does not know, and the field left out
VersionTypes == {"release", "beta", "alpha", "snapshot", NoType}

\* id and version_number are drawn from the same strings, so that the id of
\* one release may equal the version_number of another
IdStrings == {"x", "y"}

\* release objects of a registry response
Candidates ==
    [id : IdStrings, version_number : IdStrings, version_type : VersionTypes]

\* sequences over S of length at most n
SeqUpTo(S, n) == UNION {[1..k -> S] : k \in 0..n}

(***************************************************************************)
(* Stability-aware version selector: process_dependency, lines 221-251.    *)
(***************************************************************************)
\* stability_rank = {"release": 0, "beta": 1, "alpha": 2}
stability_rank == [release |-> 0, beta |-> 1, alpha |-> 2]

\* dict.get(key, default) on stability_rank
StabilityRankGet(t, default) ==
    IF t \in DOMAIN stability_rank THEN stability_rank[t] ELSE default

\* variant of VersionTypeOf: a release without the field has no known tier
VersionTypeAsGiven(v) == v.version_type

\* v.get("version_type", "release")
VersionTypeOf(v) == IF v.version_type = NoType THEN "release" ELSE v.version_type

\* current_value in (v["version_number"], v["id"])
Matches(current_value, v) ==
    current_value = v.version_number \/ current_value = v.id

\* the for loop of lines 229-233: the tier of the first release that matches
\* the pinned value, "release" when none does
RECURSIVE CurrentTypeFrom(_, _, _)
CurrentTypeFrom(all_versions, current_value, i) ==
    IF i > Len(all_versions) THEN "release"
    ELSE IF Matches(current_value, all_versions[i])
         THEN VersionTypeOf(all_versions[i])
         ELSE CurrentTypeFrom(all_versions, current_value, i + 1)

\* variant of CurrentType: the loop without its break, the last match wins
RECURSIVE CurrentTypeLastFrom(_, _, _)
CurrentTypeLastFrom(all_versions, current_value, i) ==
    IF i < 1 THEN "release"
    ELSE IF Matches(current_value, all_versions[i])
         THEN VersionTypeOf(all_versions[i])
         ELSE CurrentTypeLastFrom(all_versions, current_value, i - 1)

CurrentTypeLast(all_versions, current_value) ==
    CurrentTypeLastFrom(all_versions, current_value, Len(all_versions))

CurrentType(all_versions, current_value) ==
    CurrentTypeFrom(all_versions, current_value, 1)

\* variant of MaxRank: an unknown current tier gets the least-stable rank
MaxRankUnknownLeast(all_versions, current_value) ==
    StabilityRankGet(CurrentType(all_versions, current_value), 2)

\* max_rank = stability_rank.get(current_type, 0)
MaxRank(all_versions, current_value) ==
    StabilityRankGet(CurrentType(all_versions, current_value), 0)

\* variant of PassesFilter: an unknown tier defaults to rank 0, as on line 235
PassesFilterDefaultZero(v, max_rank) ==
    StabilityRankGet(VersionTypeOf(v), 0) <= max_rank

\* the test of the list comprehension, line 239
PassesFilter(v, max_rank) ==
    StabilityRankGet(VersionTypeOf(v), 2) <= max_rank

\* variant of FilterVersions: every release is kept when none passes
FilterVersionsOrAll(all_versions, max_rank) ==
    LET kept == SelectSeq(all_versions, LAMBDA v : PassesFilter(v, max_rank))
    IN  IF kept = <<>> THEN all_versions ELSE kept

\* versions = [v for v in all_versions if ...], lines 236-240
FilterVersions(all_versions, max_rank) ==
    SelectSeq(all_versions, LAMBDA v : PassesFilter(v, max_rank))

\* get_version_value
get_version_value(version, use_id) ==
    IF use_id THEN version.id ELSE version.version_number

\* variant of Latest: the list taken as oldest first
LatestFromEnd(versions) == versions[Len(versions)]

\* latest = versions[0]
Latest(versions) == Head(versions)

\* variant of UpToDate: only the version string is compared
UpToDateVersionOnly(current_value, latest) ==
    current_value = latest.version_number

\* the check of line 249
UpToDate(current_value, latest) ==
    current_value = latest.version_number \/ current_value = latest.id

\* a release object standing for "no release"
NoVersion == [id |-> None, version_number |-> None, version_type |-> NoType]

\* Lines 222-253 as one function of the registry response, the pinned value
\* and use_id: which return is taken, and on "update" the release selected
\* and the value to write.
Select(all_versions, current_value, use_id) ==
    IF all_versions = <<>>
    THEN [outcome |-> "no_versions", latest |-> NoVersion, new_value |-> None]
    ELSE LET max_rank == MaxRank(all_versions, current_value)
             versions == FilterVersions(all_versions, max_rank)
         IN  IF versions = <<>>
             THEN [outcome |-> "no_stable", latest |-> NoVersion,
                   new_value |-> None]
             ELSE LET latest == Latest(versions)
                      new_value == get_version_value(latest, use_id)
                  IN  IF UpToDate(current_value, latest)
                      THEN [outcome |-> "up_to_date", latest |-> latest,
                            new_value |-> new_value]
                      ELSE [outcome |-> "update", latest |-> latest,
                            new_value |-> new_value]

(***************************************************************************)
(* Config store writer: detect_line_ending and write_gradle_property.      *)
(* A text is a sequence of one-character strings.                          *)
(***************************************************************************)
\* the characters of the texts explored: a key character, another word
\* character, space, "=", "#", and three of the line boundaries of
\* str.splitlines (LF, CR, FF)
Chars == {"k", "a", " ", "=", "#", "\n", "\r", "\f"}

\* characters at which str.splitlines ends a line
IsLineBreak(c) == c \in {"\n", "\r", "\f"}

\* characters the pattern's \s accepts
IsSpace(c) == c \in {" ", "\n", "\r", "\f"}

\* text.count("\r\n")
CountCRLF(text) ==
    Cardinality({i \in 1..(Len(text) - 1) :
                    text[i] = "\r" /\ text[i + 1] = "\n"})

\* text.count("\n")
CountLF(text) == Cardinality({i \in 1..Len(text) : text[i] = "\n"})

\* variant of detect_line_ending: a tie gives CRLF
detect_line_ending_tie_crlf(text) ==
    LET crlf == CountCRLF(text)
        lf == CountLF(text) - crlf
    IN  IF crlf >= lf THEN <<"\r", "\n">> ELSE <<"\n">>

\* detect_line_ending
detect_line_ending(text) ==
    LET crlf == CountCRLF(text)
        lf == CountLF(text) - crlf
    IN  IF crlf > lf THEN <<"\r", "\n">> ELSE <<"\n">>

\* raw.splitlines(keepends=True): cur is the line being collected from
\* position i on; "\r\n" ends one line, an unterminated rest is a last line
RECURSIVE SplitLinesFrom(_, _, _)
SplitLinesFrom(text, i, cur) ==
    IF i > Len(text)
    THEN IF cur = <<>> THEN <<>> ELSE <<cur>>
    ELSE IF text[i] = "\r" /\ i < Len(text) /\ text[i + 1] = "\n"
         THEN <<cur \o <<"\r", "\n">>>> \o SplitLinesFrom(text, i + 2, <<>>)
         ELSE IF IsLineBreak(text[i])
              THEN <<Append(cur, text[i])>> \o SplitLinesFrom(text, i + 1, <<>>)
              ELSE SplitLinesFrom(text, i + 1, Append(cur, text[i]))

SplitLinesKeepEnds(text) == SplitLinesFrom(text, 1, <<>>)

\* pattern.match(line) for ^{re.escape(key)}\s*= : the key at the start of
\* the line, any run of whitespace, then "="
PatternMatch(key, line) ==
    /\ Len(line) > Len(key)
    /\ SubSeq(line, 1, Len(key)) = key
    /\ \E n \in Len(key)..(Len(line) - 1) :
          /\ \A j \in (Len(key) + 1)..n : IsSpace(line[j])
          /\ line[n + 1] = "="

\* f"{key}={new_value}{eol}"
NewLine(key, new_value, eol) == key \o <<"=">> \o new_value \o eol

\* variant of ReplaceFirst: the loop without its break
RECURSIVE ReplaceEvery(_, _, _, _)
ReplaceEvery(lines, key, new_line, i) ==
    IF i > Len(lines) THEN lines
    ELSE IF PatternMatch(key, lines[i])
         THEN ReplaceEvery([lines EXCEPT ![i] = new_line], key, new_line, i + 1)
         ELSE ReplaceEvery(lines, key, new_line, i + 1)

\* the for loop of lines 55-58 from index i on: the first matching line is
\* replaced and the loop left
RECURSIVE ReplaceFirst(_, _, _, _)
ReplaceFirst(lines, key, new_line, i) ==
    IF i > Len(lines) THEN lines
    ELSE IF PatternMatch(key, lines[i])
         THEN [lines EXCEPT ![i] = new_line]
         ELSE ReplaceFirst(lines, key, new_line, i + 1)

\* "".join(lines)
RECURSIVE Join(_)
Join(lines) == IF lines = <<>> THEN <<>> ELSE Head(lines) \o Join(Tail(lines))

\* write_gradle_property: the file's text after the call
write_gradle_property(raw, key, new_value) ==
    LET eol == detect_line_ending(raw)
        lines == SplitLinesKeepEnds(raw)
    IN  Join(ReplaceFirst(lines, key, NewLine(key, new_value, eol), 1))

(***************************************************************************)
(* gradle.properties reader: read_gradle_properties, lines 36-46.          *)
(***************************************************************************)
\* props = {} of line 38
EmptyProps == [k \in {} |-> <<>>]

\* path.read_text(): universal newlines, "\r\n" and "\r" are read as "\n"
RECURSIVE UniversalNewlines(_)
UniversalNewlines(text) ==
    IF text = <<>> THEN <<>>
    ELSE IF Head(text) = "\r"
         THEN IF Len(text) >= 2 /\ text[2] = "\n"
              THEN <<"\n">> \o UniversalNewlines(SubSeq(text, 3, Len(text)))
              ELSE <<"\n">> \o UniversalNewlines(Tail(text))
         ELSE <<Head(text)>> \o UniversalNewlines(Tail(text))

\* a line of splitlines(keepends=True) without its end
WithoutEnd(line) ==
    IF Len(line) >= 2 /\ line[Len(line) - 1] = "\r" /\ line[Len(line)] = "\n"
    THEN SubSeq(line, 1, Len(line) - 2)
    ELSE IF line # <<>> /\ IsLineBreak(line[Len(line)])
         THEN SubSeq(line, 1, Len(line) - 1)
         ELSE line

\* str.splitlines()
SplitLines(text) ==
    LET kept == SplitLinesKeepEnds(text)
    IN  [i \in 1..Len(kept) |-> WithoutEnd(kept[i])]

RECURSIVE StripTextLeft(_)
StripTextLeft(t) ==
    IF t # <<>> /\ IsSpace(Head(t)) THEN StripTextLeft(Tail(t)) ELSE t

RECURSIVE StripTextRight(_)
StripTextRight(t) ==
    IF t # <<>> /\ IsSpace(t[Len(t)])
    THEN StripTextRight(SubSeq(t, 1, Len(t) - 1))
    ELSE t

\* str.strip() on a text of characters
StripText(t) == StripTextRight(StripTextLeft(t))

\* "=" in line
HasEquals(line) == \E i \in 1..Len(line) : line[i] = "="

\* line.partition("="): the position of the first "="
FirstEquals(line) ==
    CHOOSE i \in 1..Len(line) :
        line[i] = "=" /\ \A j \in 1..(i - 1) : line[j] # "="

\* lines 40-45: the effect of one line on props
ReadLine(props, raw_line) ==
    LET line == StripText(raw_line)
    IN  IF line = <<>> \/ Head(line) = "#" THEN props
        ELSE IF ~HasEquals(line) THEN props
        ELSE LET i == FirstEquals(line)
                 key == StripText(SubSeq(line, 1, i - 1))
                 value == StripText(SubSeq(line, i + 1, Len(line)))
             IN  [k \in DOMAIN props \cup {key} |->
                     IF k = key THEN value ELSE props[k]]

\* the for loop of line 39 from line i on
RECURSIVE ReadFrom(_, _, _)
ReadFrom(lines, i, props) ==
    IF i > Len(lines) THEN props
    ELSE ReadFrom(lines, i + 1, ReadLine(props, lines[i]))

\* read_gradle_properties: the mapping read from the file's text
read_gradle_properties(text) ==
    ReadFrom(SplitLines(UniversalNewlines(text)), 1, EmptyProps)

(***************************************************************************)
(* The run: main's loop over the manifest and process_dependency's         *)
(* reconciliation, against a git checkout, its remote and the pull         *)
(* requests of the hosting service.                                        *)
(*                                                                         *)
(* gradle.properties is a text of tokens, read by read_gradle_properties    *)
(* and rewritten by write_gradle_property as defined above.  A commit is   *)
(* identified with the text of the file it holds, so git compares texts.   *)
(* Every run starts in a fresh clone, checked out at the base branch's     *)
(* commit or detached at any other commit (a pull request's merge ref, a   *)
(* commit the base has moved past) from which detect_base_branch moves to  *)
(* the base branch.                                                        *)
(***************************************************************************)
\* runs of main explored, one after the other on the same remote
MaxRuns == 2

\* the base branch detect_base_branch returns, as its path components
BaseBranch == <<"main">>

\* property keys and slugs of the manifests explored
KeyNames == <<"dep1", "dep2">>
SlugNames == <<"s1", "s2">>
NDeps == Len(KeyNames)
Keys == {KeyNames[i] : i \in 1..NDeps}
Slugs == {SlugNames[i] : i \in 1..NDeps}

\* branch = f"modrinth-deps/{base_branch}/{slug}"
DepBranch(slug) == <<"modrinth-deps", BaseBranch[1], slug>>
DepBranches == {DepBranch(s) : s \in Slugs}
Branches == {BaseBranch} \cup DepBranches

\* manifest entries: a bare slug string, or an object with use_id set (an
\* object without use_id behaves as the bare string)
StrEntry(i) ==
    [prop_key |-> KeyNames[i], kind |-> "str", slug |-> SlugNames[i],
     use_id |-> FALSE]
ObjEntry(i) ==
    [prop_key |-> KeyNames[i], kind |-> "obj", slug |-> SlugNames[i],
     use_id |-> TRUE]

\* config.items(): one entry per key, in the file's order; the first
\* dependency is given as a bare slug, the second as an object with use_id
Manifests == {[i \in 1..NDeps |-> IF i = 1 THEN StrEntry(i) ELSE ObjEntry(i)]}

\* a manifest whose two keys name the same registry slug, the second with
\* use_id (a version string and a file id of one mod)
SharedSlugManifests ==
    {[i \in 1..NDeps |->
        IF i = 1 THEN StrEntry(i)
        ELSE [ObjEntry(i) EXCEPT !.slug = SlugNames[1]]]}

\* lines 381-382 and 209-210: the shorthand becomes {"slug": ...}, use_id
\* defaults to False
DepConfig(entry) ==
    IF entry.kind = "str"
    THEN [slug |-> entry.slug, use_id |-> FALSE]
    ELSE [slug |-> entry.slug, use_id |-> entry.use_id]

\* releases of the registry responses of a run
RunCandidates ==
    {[id |-> "i1", version_number |-> "v1", version_type |-> t] :
        t \in {"release", "beta"}}
    \cup
    {[id |-> "i2", version_number |-> "v2", version_type |-> t] :
        t \in {"release", "beta"}}
RunResponses == SeqUpTo(RunCandidates, MaxResponse)

\* values the key of a manifest entry may carry in gradle.properties: a
\* release's version string, and for an entry with use_id a release's id
\* or the version string pinned before use_id was set
FileValues(entry) ==
    IF entry.use_id THEN {"i1", "i2", "v1"} ELSE {"v1", "v2"}
\* lines of gradle.properties, as texts of tokens (a key, a value, "=", a
\* blank, a line break): key=value, key = value and an indented key=value
PlainLine(k, v) == <<k, "=", v, "\n">>
SpacedLine(k, v) == <<k, " ", "=", " ", v, "\n">>
IndentedLine(k, v) == <<" ", k, "=", v, "\n">>

\* what the base branch's file holds for a manifest entry when the first
\* run starts: no line, or a line pinning release 1 by its version string
\* or (with use_id) by its id; for the first kind of entry the line may
\* also be spelled with blanks around "=" or be indented
PinnedAtStart(entry) ==
    IF entry.use_id
    THEN {<<>>, PlainLine(entry.prop_key, "i1")}
    ELSE {<<>>, PlainLine(entry.prop_key, "v1"),
          SpacedLine(entry.prop_key, "v1"),
          IndentedLine(entry.prop_key, "v1")}

\* the texts gradle.properties can have in the commit checked out when
\* main starts: each key without a line or on a line with any of its
\* values, whatever the base branch holds on the remote
StartTexts(m) ==
    LET lines(e) == {<<>>} \cup {PlainLine(e.prop_key, v) : v \in FileValues(e)}
    IN  {a \o b : a \in lines(m[1]), b \in lines(m[2])}

\* a value of the mapping as a string
ValueString(t) == IF t = <<>> THEN "" ELSE t[1]

\* read_gradle_properties(gradle_path) as props.get answers for the keys
\* of the manifest: None for a key the file does not give
PropsOf(text) ==
    LET read == read_gradle_properties(text)
    IN  [k \in Keys |->
            IF <<k>> \in DOMAIN read THEN ValueString(read[<<k>>]) ELSE None]

\* the text standing for "no such branch"
NoBranch == <<"<no branch>">>

\* write_gradle_property(gradle_path, key, new_value) on the file's text
WriteProp(text, key, new_value) ==
    write_gradle_property(text, <<key>>, <<new_value>>)

(***************************************************************************)
(* State.                                                                  *)
(***************************************************************************)
VARIABLES
    \* selector specification: the inputs, the decision, and the locals
    \* max_rank and versions (the filtered list)
    sel_versions, sel_pinned, sel_use_id, sel_out, sel_max_rank,
    sel_filtered,
    \* writer specification: the file's text, its text before the call, the
    \* arguments of the call and whether the call has returned
    w_file, w_orig, w_key, w_value, w_done,
    \* ... the properties read before the call, and those of a fresh read
    \* after it, once w_read holds
    w_props, w_reread, w_read,
    \* main: position, index of the manifest entry at hand, the counter
    \* "updated", the count printed, the exit status
    pc, dep, updated, reported, exit_code, runs,
    \* main: the manifest, the properties read when the run started, and
    \* per dependency attempted in this run how the attempt ended
    manifest, props, results,
    \* process_dependency: the registry response, the selection, the git
    \* and gh commands issued so far, whether the registry was queried
    all_versions, decision, cmds, queried,
    \* process_dependency: its locals commit_msg and pr_title
    commit_msg, pr_title,
    \* the local checkout: current branch, local branches, working tree,
    \* index, and the remote-tracking ref of the base branch
    head, tips, work, index, trackBase,
    \* the remote's branches and the state of each branch's pull request
    origin, pr,
    \* start of main: position, whether the two files exist, the two
    \* required properties, the exit status, the base branch detected, the
    \* number of process_dependency calls, the commands issued
    m_pc, m_config_exists, m_config_json, m_gradle_exists, m_minecraft_version,
    m_mod_loader, m_exit, m_base, m_calls, m_cmds,
    \* detect_base_branch: what git rev-parse prints, return code and
    \* output lines of git branch -r --points-at HEAD, the branches
    \* git checkout -B succeeds for, the two environment variables, and
    \* the loop positions
    d_rev, d_points_rc, d_points, d_co_ok, d_raises, d_env, d_i, d_e

selVars == <<sel_versions, sel_pinned, sel_use_id, sel_out, sel_max_rank,
             sel_filtered>>
writeVars == <<w_file, w_orig, w_key, w_value, w_done, w_props, w_reread,
               w_read>>
mainVars == <<pc, dep, updated, reported, exit_code, manifest, props,
              results, runs>>
pdVars == <<all_versions, decision, cmds, queried, commit_msg, pr_title>>
gitVars == <<head, tips, work, index, trackBase>>
hubVars == <<origin, pr>>
runVars == <<mainVars, pdVars, gitVars, hubVars>>
startVars == <<m_pc, m_config_exists, m_config_json, m_gradle_exists, m_minecraft_version,
               m_mod_loader, m_exit, m_base, m_calls, m_cmds>>
detectVars == <<d_rev, d_points_rc, d_points, d_co_ok, d_raises, d_env, d_i, d_e>>
vars == <<selVars, writeVars, runVars, startVars, detectVars>>

\* the decision not taken yet
Pending == [outcome |-> "pending", latest |-> NoVersion, new_value |-> None]

\* pinned values: the strings releases carry and one no release carries
PinnedStrings == IdStrings \cup {"z"}

\* the selector's variables while another specification runs
SelectIdle ==
    /\ sel_versions = <<>>
    /\ sel_pinned = None
    /\ sel_use_id = FALSE
    /\ sel_out = Pending
    /\ sel_max_rank = 0
    /\ sel_filtered = <<>>

\* the writer's variables while another specification runs
WriteIdle ==
    /\ w_file = <<>>
    /\ w_orig = <<>>
    /\ w_key = <<>>
    /\ w_value = <<>>
    /\ w_done = FALSE
    /\ w_props = EmptyProps /\ w_reread = EmptyProps /\ w_read = FALSE

\* the variables of main's start while another specification runs
StartIdle ==
    /\ m_pc = "off" /\ m_config_exists = FALSE /\ m_gradle_exists = FALSE
    /\ m_config_json = "" /\ d_raises = {}
    /\ m_minecraft_version = None /\ m_mod_loader = None
    /\ m_exit = "none" /\ m_base = <<>> /\ m_calls = 0 /\ m_cmds = <<>>
    /\ d_rev = <<>> /\ d_points_rc = 0 /\ d_points = <<>> /\ d_co_ok = {}
    /\ d_env = <<>> /\ d_i = 0 /\ d_e = 0

\* the run's variables while another specification runs
RunIdle ==
    /\ pc = "off" /\ dep = 0 /\ updated = 0 /\ reported = 0
    /\ exit_code = "none" /\ manifest = <<>> /\ results = <<>>
    /\ runs = 0
    /\ props = [k \in Keys |-> None]
    /\ all_versions = <<>> /\ decision = Pending /\ cmds = <<>>
    /\ queried = FALSE /\ commit_msg = <<>> /\ pr_title = <<>>
    /\ head = BaseBranch /\ tips = [b \in Branches |-> NoBranch]
    /\ work = NoBranch /\ index = NoBranch /\ trackBase = NoBranch
    /\ origin = [b \in Branches |-> NoBranch]
    /\ pr = [b \in DepBranches |-> "NONE"]

InitSelect ==
    /\ sel_versions \in SeqUpTo(Candidates, MaxVersions)
    /\ sel_pinned \in PinnedStrings
    /\ sel_use_id \in BOOLEAN
    /\ sel_out = Pending
    /\ sel_max_rank = 0
    /\ sel_filtered = <<>>
    /\ WriteIdle /\ RunIdle /\ StartIdle

\* process_dependency's decision on the inputs
SelectStep ==
    /\ sel_out = Pending
    /\ sel_out' = Select(sel_versions, sel_pinned, sel_use_id)
    /\ sel_max_rank' = MaxRank(sel_versions, sel_pinned)
    /\ sel_filtered' = FilterVersions(sel_versions,
                                      MaxRank(sel_versions, sel_pinned))
    /\ UNCHANGED <<sel_versions, sel_pinned, sel_use_id>>
    /\ UNCHANGED <<writeVars, runVars, startVars, detectVars>>

NextSelect == SelectStep

SpecSelect == InitSelect /\ [][NextSelect]_vars

\* keys and values the writer is called with
WriteKeys == {<<"k">>}
WriteValues == {<<"a">>}

InitWrite ==
    /\ \E n \in 0..MaxText : w_orig \in [1..n -> Chars]
    /\ w_file = w_orig
    /\ w_key \in WriteKeys
    /\ w_value \in WriteValues
    /\ w_done = FALSE
    /\ w_props = read_gradle_properties(w_orig)
    /\ w_reread = EmptyProps /\ w_read = FALSE
    /\ SelectIdle /\ RunIdle /\ StartIdle

\* one call of write_gradle_property(path, key, new_value)
WriteStep ==
    /\ ~w_done
    /\ w_file' = write_gradle_property(w_file, w_key, w_value)
    /\ w_done' = TRUE
    /\ UNCHANGED <<w_orig, w_key, w_value, w_props, w_reread, w_read>>
    /\ UNCHANGED <<selVars, runVars, startVars, detectVars>>

\* a fresh read_gradle_properties(path) after the call
ReadBack ==
    /\ w_done /\ ~w_read
    /\ w_reread' = read_gradle_properties(w_file)
    /\ w_read' = TRUE
    /\ UNCHANGED <<w_file, w_orig, w_key, w_value, w_done, w_props>>
    /\ UNCHANGED <<selVars, runVars, startVars, detectVars>>

NextWrite == WriteStep \/ ReadBack

SpecWrite == InitWrite /\ [][NextWrite]_vars

(***************************************************************************)
(* Specification SpecStart: main up to its loop, and detect_base_branch.   *)
(* Text is a sequence of tokens here: a word, a digit, "/", "->", a        *)
(* remote's prefix, a blank or a line break.                               *)
(***************************************************************************)
\* most lines git branch -r --points-at HEAD prints
MaxPoints == 2

\* what str.strip removes
Blank == {" ", "\n"}
Digits == {"1", "2"}

RECURSIVE StripLeft(_)
StripLeft(t) ==
    IF t # <<>> /\ Head(t) \in Blank THEN StripLeft(Tail(t)) ELSE t

RECURSIVE StripRight(_)
StripRight(t) ==
    IF t # <<>> /\ t[Len(t)] \in Blank
    THEN StripRight(SubSeq(t, 1, Len(t) - 1))
    ELSE t

\* str.strip()
Strip(t) == StripRight(StripLeft(t))

\* re.fullmatch(r"\d+/merge", ref)
IsMergeRef(ref) ==
    /\ Len(ref) >= 3
    /\ ref[Len(ref)] = "merge"
    /\ ref[Len(ref) - 1] = "/"
    /\ \A i \in 1..(Len(ref) - 2) : ref[i] \in Digits

\* lines 23-26
is_usable_ci_branch_ref(ref) ==
    LET r == Strip(ref)
    IN  IF r = <<>> \/ r = <<"HEAD">> THEN FALSE ELSE ~IsMergeRef(r)

\* props.get(...) of a required key: absent, present and empty, present
PropValues == {None, "", "1.21"}
\* branch names of the repository
NamedBranches == {<<"main">>, <<"dev">>}
\* git branch -r --points-at HEAD, as a command that may fail to start
PointsCommand == <<"git branch -r">>
\* git rev-parse raised CalledProcessError
RevRaised == <<"<raised>">>
\* stdout of git rev-parse --abbrev-ref HEAD
RevOutputs == {<<"main", "\n">>, <<"dev", "\n">>, <<"HEAD", "\n">>}
\* lines of git branch -r --points-at HEAD
PointsLines ==
    {<<" ", " ", "origin/", "HEAD", " ", "->", " ", "origin/", "main">>,
     <<" ", " ", "origin/", "main">>,
     <<" ", " ", "origin/", "dev">>,
     <<" ", " ", "upstream/", "main">>}
\* values of GITHUB_BASE_REF and GITHUB_REF_NAME ("" also when unset)
EnvValues ==
    {<<>>, <<"HEAD">>, <<"1", "2", "/", "merge">>, <<"main">>,
     <<" ", "dev", " ">>}
\* variant of EnvOrder: GITHUB_REF_NAME is tried first
EnvOrderRefNameFirst == <<"GITHUB_REF_NAME", "GITHUB_BASE_REF">>

\* for env_var in ("GITHUB_BASE_REF", "GITHUB_REF_NAME"), line 170
EnvOrder == <<"GITHUB_BASE_REF", "GITHUB_REF_NAME">>
EnvNames == {"GITHUB_BASE_REF", "GITHUB_REF_NAME"}

\* "->" in ref
HasArrow(ref) == \E i \in 1..Len(ref) : ref[i] = "->"
\* ref.startswith("origin/")
StartsWithOrigin(ref) == ref # <<>> /\ ref[1] = "origin/"

\* what the manifest file holds: no JSON text, a JSON object, or another
\* JSON value (which has no items())
ConfigKinds == {"malformed", "object", "array"}

StartFrame == UNCHANGED <<selVars, writeVars, runVars>>
\* sys.exit(code); an uncaught exception ends the interpreter with status 1
Exit(code) == m_exit' = code /\ m_pc' = "exited"
Run(c) == m_cmds' = Append(m_cmds, c)

InitStart ==
    /\ m_pc = "files"
    /\ m_config_exists \in BOOLEAN
    /\ m_config_json \in ConfigKinds
    /\ m_gradle_exists \in BOOLEAN
    /\ m_minecraft_version \in PropValues
    /\ m_mod_loader \in PropValues
    /\ m_exit = "none" /\ m_base = <<>> /\ m_calls = 0 /\ m_cmds = <<>>
    /\ d_rev = <<>> /\ d_points_rc = 0 /\ d_points = <<>> /\ d_co_ok = {}
    /\ d_raises = {}
    /\ d_env = <<>> /\ d_i = 0 /\ d_e = 0
    /\ SelectIdle /\ WriteIdle /\ RunIdle

\* lines 343-348
CheckFiles ==
    /\ m_pc = "files"
    /\ IF ~m_config_exists THEN Exit("1")
       ELSE IF ~m_gradle_exists THEN Exit("1")
       ELSE m_pc' = "props" /\ m_exit' = m_exit
    /\ UNCHANGED <<m_config_exists, m_config_json, m_gradle_exists, m_minecraft_version,
                   m_mod_loader, m_base, m_calls, m_cmds, detectVars>>
    /\ StartFrame

\* variant of CheckProps: mod_loader is not required
CheckPropsVersionOnly ==
    /\ m_pc = "props"
    /\ IF m_config_json = "malformed" THEN Exit("1")
       ELSE IF m_minecraft_version \in {None, ""} THEN Exit("1")
       ELSE m_pc' = "git_config" /\ m_exit' = m_exit
    /\ UNCHANGED <<m_config_exists, m_config_json, m_gradle_exists, m_minecraft_version,
                   m_mod_loader, m_base, m_calls, m_cmds, detectVars>>
    /\ StartFrame

\* lines 350-361: json.loads raises on a manifest that is not JSON; "not
\* x" holds for None and for the empty string (gradle.properties, which
\* exists, is a readable text)
CheckProps ==
    /\ m_pc = "props"
    /\ IF m_config_json = "malformed" THEN Exit("1")
       ELSE IF m_minecraft_version \in {None, ""} THEN Exit("1")
       ELSE IF m_mod_loader \in {None, ""} THEN Exit("1")
       ELSE m_pc' = "git_config" /\ m_exit' = m_exit
    /\ UNCHANGED <<m_config_exists, m_config_json, m_gradle_exists, m_minecraft_version,
                   m_mod_loader, m_base, m_calls, m_cmds, detectVars>>
    /\ StartFrame

\* line 367: git config user.name, with check=True
GitConfigName ==
    /\ m_pc = "git_config"
    /\ Run("git config")
    /\ \/ m_pc' = "git_config_email" /\ m_exit' = m_exit
       \/ Exit("1")
    /\ UNCHANGED <<m_config_exists, m_config_json, m_gradle_exists, m_minecraft_version,
                   m_mod_loader, m_base, m_calls, detectVars>>
    /\ StartFrame

\* lines 368-372: git config user.email, with check=True
GitConfigEmail ==
    /\ m_pc = "git_config_email"
    /\ Run("git config")
    /\ \/ m_pc' = "detect" /\ m_exit' = m_exit
       \/ Exit("1")
    /\ UNCHANGED <<m_config_exists, m_config_json, m_gradle_exists, m_minecraft_version,
                   m_mod_loader, m_base, m_calls, detectVars>>
    /\ StartFrame

\* line 375: detect_base_branch is called; the checkout and the
\* environment it will find
DetectStart ==
    /\ m_pc = "detect"
    /\ d_rev' \in RevOutputs \cup {RevRaised}
    /\ d_points_rc' \in {0, 1}
    /\ d_points' \in SeqUpTo(PointsLines, MaxPoints)
    /\ d_co_ok' \in SUBSET NamedBranches
    /\ d_raises' \in SUBSET ({PointsCommand} \cup (NamedBranches \ d_co_ok'))
    /\ d_env' \in [EnvNames -> EnvValues]
    /\ d_i' = 0 /\ d_e' = 0
    /\ m_pc' = "rev_parse"
    /\ UNCHANGED <<m_config_exists, m_config_json, m_gradle_exists, m_minecraft_version,
                   m_mod_loader, m_exit, m_base, m_calls, m_cmds>>
    /\ StartFrame

\* detect_base_branch returned branch; lines 375-378
Detected(branch) == m_base' = branch /\ m_pc' = "loop" /\ m_exit' = m_exit

\* lines 136-144
RevParse ==
    /\ m_pc = "rev_parse"
    /\ Run("git rev-parse")
    /\ IF d_rev = RevRaised THEN Exit("1") /\ m_base' = m_base
       ELSE IF Strip(d_rev) # <<"HEAD">> THEN Detected(Strip(d_rev))
       ELSE m_pc' = "points_at" /\ m_exit' = m_exit /\ m_base' = m_base
    /\ UNCHANGED <<m_config_exists, m_config_json, m_gradle_exists, m_minecraft_version,
                   m_mod_loader, m_calls, detectVars>>
    /\ StartFrame

\* lines 147-152; subprocess.run raises when git cannot be started
PointsAt ==
    /\ m_pc = "points_at"
    /\ Run("git branch -r")
    /\ IF PointsCommand \in d_raises
       THEN Exit("1") /\ UNCHANGED <<d_i, d_e>>
       ELSE IF d_points_rc = 0
       THEN m_pc' = "scan" /\ d_i' = 1 /\ d_e' = d_e /\ m_exit' = m_exit
       ELSE m_pc' = "env" /\ d_e' = 1 /\ d_i' = d_i /\ m_exit' = m_exit
    /\ UNCHANGED <<m_config_exists, m_config_json, m_gradle_exists, m_minecraft_version,
                   m_mod_loader, m_base, m_calls>>
    /\ UNCHANGED <<d_rev, d_points_rc, d_points, d_co_ok, d_raises, d_env>>
    /\ StartFrame

\* lines 153-167: one iteration of the loop over the lines; subprocess.run
\* raises when git cannot be started
ScanLine ==
    /\ m_pc = "scan"
    /\ IF d_i > Len(d_points)
       THEN /\ m_pc' = "env" /\ d_e' = 1 /\ d_i' = d_i
            /\ UNCHANGED <<m_base, m_cmds, m_exit>>
       ELSE LET ref == Strip(d_points[d_i])
            IN  IF HasArrow(ref) \/ ~StartsWithOrigin(ref)
                THEN /\ d_i' = d_i + 1 /\ d_e' = d_e
                     /\ UNCHANGED <<m_pc, m_base, m_cmds, m_exit>>
                ELSE /\ Run("git checkout -B")
                     /\ IF Tail(ref) \in d_raises
                        THEN /\ Exit("1")
                             /\ UNCHANGED <<m_base, d_i, d_e>>
                        ELSE IF Tail(ref) \in d_co_ok
                        THEN Detected(Tail(ref)) /\ UNCHANGED <<d_i, d_e>>
                        ELSE /\ d_i' = d_i + 1 /\ d_e' = d_e
                             /\ UNCHANGED <<m_pc, m_base, m_exit>>
    /\ UNCHANGED <<m_config_exists, m_config_json, m_gradle_exists, m_minecraft_version,
                   m_mod_loader, m_calls>>
    /\ UNCHANGED <<d_rev, d_points_rc, d_points, d_co_ok, d_raises, d_env>>
    /\ StartFrame

\* lines 170-188: one iteration of the loop over the two variables, and
\* the exit after it
EnvRef ==
    /\ m_pc = "env"
    /\ IF d_e > Len(EnvOrder)
       THEN Exit("1") /\ UNCHANGED <<m_base, m_cmds, d_e>>
       ELSE LET ref == Strip(d_env[EnvOrder[d_e]])
            IN  IF ~is_usable_ci_branch_ref(ref)
                THEN /\ d_e' = d_e + 1
                     /\ UNCHANGED <<m_pc, m_base, m_cmds, m_exit>>
                ELSE /\ Run("git checkout -B")
                     /\ d_e' = d_e
                     /\ IF ref \in d_raises
                        THEN Exit("1") /\ m_base' = m_base
                        ELSE IF ref \in d_co_ok
                        THEN Detected(ref)
                        ELSE Exit("1") /\ m_base' = m_base
    /\ UNCHANGED <<m_config_exists, m_config_json, m_gradle_exists, m_minecraft_version,
                   m_mod_loader, m_calls>>
    /\ UNCHANGED <<d_rev, d_points_rc, d_points, d_co_ok, d_raises, d_env, d_i>>
    /\ StartFrame

\* lines 379-397: process_dependency is called for the next entry and
\* the loop goes on, also after an exception; an exception of the
\* handler's safe_checkout itself ends main
CallProcessDependency ==
    /\ m_pc = "loop" /\ m_calls < NDeps
    /\ m_config_json = "object"
    /\ m_calls' = m_calls + 1
    /\ Run("process_dependency")
    /\ \/ UNCHANGED <<m_pc, m_exit>>
       \/ Exit("1")
    /\ UNCHANGED <<m_config_exists, m_config_json, m_gradle_exists,
                   m_minecraft_version, m_mod_loader, m_base,
                   detectVars>>
    /\ StartFrame

\* line 378: config.items() raises AttributeError on a manifest that is
\* not a JSON object
ItemsRaises ==
    /\ m_pc = "loop" /\ m_config_json # "object"
    /\ Exit("1")
    /\ UNCHANGED <<m_config_exists, m_config_json, m_gradle_exists, m_minecraft_version,
                   m_mod_loader, m_base, m_calls, m_cmds, detectVars>>
    /\ StartFrame

\* lines 399-400: main returns
MainReturns ==
    /\ m_pc = "loop" /\ m_calls = NDeps
    /\ m_config_json = "object"
    /\ Exit("0")
    /\ UNCHANGED <<m_config_exists, m_config_json, m_gradle_exists, m_minecraft_version,
                   m_mod_loader, m_base, m_calls, m_cmds, detectVars>>
    /\ StartFrame

NextStart ==
    \/ CheckFiles \/ CheckProps \/ GitConfigName \/ GitConfigEmail
    \/ DetectStart \/ RevParse
    \/ PointsAt \/ ScanLine \/ EnvRef \/ ItemsRaises
    \/ CallProcessDependency \/ MainReturns

SpecStart == InitStart /\ [][NextStart]_vars

(***************************************************************************)
(* Specification Spec: runs of main.                                       *)
(***************************************************************************)
\* Before the first run: a manifest, a base branch on the remote whose
\* gradle.properties has a line for each key or lacks it, no dependency
\* branch, no pull request, no checkout yet.
InitRun(manifests) ==
    /\ SelectIdle /\ WriteIdle /\ StartIdle
    /\ manifest \in manifests
    /\ \E a \in PinnedAtStart(manifest[1]), b \in PinnedAtStart(manifest[2]) :
          origin = [br \in Branches |->
                      IF br = BaseBranch THEN a \o b ELSE NoBranch]
    /\ pr = [b \in DepBranches |-> "NONE"]
    /\ pc = "idle" /\ dep = 0 /\ updated = 0 /\ reported = 0
    /\ exit_code = "none" /\ results = <<>> /\ runs = 0
    /\ props = [k \in Keys |-> None]
    /\ all_versions = <<>> /\ decision = Pending /\ cmds = <<>>
    /\ queried = FALSE /\ commit_msg = <<>> /\ pr_title = <<>>
    /\ head = BaseBranch /\ tips = [b \in Branches |-> NoBranch]
    /\ work = NoBranch /\ index = NoBranch /\ trackBase = NoBranch

Init == InitRun(Manifests)

\* the same, for a manifest whose keys share a slug
InitSharedSlug == InitRun(SharedSlugManifests)

\* the manifest entry at hand and what process_dependency derives from it
CurEntry == manifest[dep]
CurConfig == DepConfig(CurEntry)
Branch == DepBranch(CurConfig.slug)
current_value == props[CurEntry.prop_key]

\* the checkout has uncommitted changes (working tree or index)
Dirty == work # tips[head] \/ index # tips[head]
\* git lets the checkout move to a commit holding content c (its two-way
\* merge of the current commit, the target commit and the index): the
\* file is the same in both commits, or the index already holds the
\* target's content, or nothing is uncommitted; it refuses when the index
\* differs from both commits, and when the index is the current commit's
\* but the working tree was edited
CanSwitch(c) == c = tips[head] \/ index = c \/ ~Dirty
\* the checkout moved to branch b at a commit holding content c; index
\* and working tree, where git allowed the move with uncommitted changes,
\* are kept as they were
SwitchTo(b, c) ==
    /\ head' = b
    /\ work' = IF Dirty THEN work ELSE c
    /\ index' = IF Dirty THEN index ELSE c

\* run(cmd) and the bare subprocess.run calls: the command is issued
Issue(c) == cmds' = Append(cmds, c)
\* check=True raised CalledProcessError, subprocess.run itself raised (the
\* command could not be started) or the registry call raised
Raise == pc' = "except"

\* lines 384-393: process_dependency returned ret for manifest entry i
Finished(i, ret, how) ==
    /\ results' = Append(results, [dep |-> i, ret |-> ret, how |-> how])
    /\ updated' = IF ret = "True" THEN updated + 1 ELSE updated
    /\ pc' = "loop"
    /\ all_versions' = <<>>
    /\ decision' = Pending
    /\ commit_msg' = <<>> /\ pr_title' = <<>>

\* main, lines 340-378, in a fresh clone: the properties are read once
\* (line 351) from the commit checked out at the start, whatever it holds
\* (the base branch's content or any other), then
\* detect_base_branch (line 375) leaves the checkout on the base branch
\* at the remote's commit; the counter starts at 0
StartRun ==
    /\ pc = "idle" /\ runs < MaxRuns
    /\ runs' = runs + 1
    /\ head' = BaseBranch
    /\ tips' = [b \in Branches |->
                  IF b = BaseBranch THEN origin[BaseBranch] ELSE NoBranch]
    /\ work' = origin[BaseBranch]
    /\ index' = origin[BaseBranch]
    /\ trackBase' = origin[BaseBranch]
    /\ \E t \in StartTexts(manifest) : props' = PropsOf(t)
    /\ dep' = 0 /\ updated' = 0 /\ reported' = 0 /\ exit_code' = "none"
    /\ cmds' = <<>> /\ queried' = FALSE /\ results' = <<>>
    /\ pc' = "loop"
    /\ UNCHANGED <<manifest, all_versions, decision, commit_msg, pr_title>>
    /\ UNCHANGED <<hubVars, selVars, writeVars, startVars,
                 detectVars>>

\* lines 379-382 and 209-215: the next manifest entry is taken and
\* process_dependency entered; a key absent from props returns False
NextDependency ==
    /\ pc = "loop" /\ dep < Len(manifest)
    /\ dep' = dep + 1
    /\ cmds' = <<>> /\ queried' = FALSE
    /\ IF props[manifest[dep + 1].prop_key] = None
       THEN Finished(dep + 1, "False", "missing")
       ELSE /\ pc' = "query"
            /\ UNCHANGED <<results, updated, all_versions, decision,
                           commit_msg, pr_title>>
    /\ UNCHANGED <<reported, exit_code, manifest, props, runs>>
    /\ UNCHANGED <<gitVars, hubVars, selVars, writeVars, startVars,
                 detectVars>>

\* line 221, query_modrinth: the registry answers with a list of releases,
\* or the call raises
Query ==
    /\ pc = "query"
    /\ queried' = TRUE
    /\ \/ \E r \in RunResponses : all_versions' = r /\ pc' = "select"
       \/ Raise /\ UNCHANGED all_versions
    /\ UNCHANGED <<dep, updated, reported, exit_code, manifest, props,
                   results, decision, cmds, commit_msg, pr_title, runs>>
    /\ UNCHANGED <<gitVars, hubVars, selVars, writeVars, startVars,
                 detectVars>>

\* lines 222-253: the selection; every outcome but "update" returns False
Decide ==
    /\ pc = "select"
    /\ LET d == Select(all_versions, current_value, CurConfig.use_id)
       IN  IF d.outcome = "update"
           THEN /\ decision' = d
                /\ all_versions' = <<>>
                /\ pc' = "checkout_base"
                /\ UNCHANGED <<results, updated, commit_msg, pr_title>>
           ELSE Finished(dep, "False", d.outcome)
    /\ UNCHANGED <<dep, reported, exit_code, manifest, props, cmds,
                   queried, runs>>
    /\ UNCHANGED <<gitVars, hubVars, selVars, writeVars, startVars,
                 detectVars>>

\* what the git and gh steps below leave alone
StepFrame ==
    /\ UNCHANGED <<dep, reported, exit_code, manifest, props, queried, runs>>
    /\ UNCHANGED <<selVars, writeVars, startVars,
                 detectVars>>
\* a step that does not return from process_dependency
Inside == UNCHANGED <<results, updated, all_versions, decision>>
\* ... and leaves the two message locals alone
Locals == UNCHANGED <<commit_msg, pr_title>>

\* line 261: git checkout base_branch
GitCheckoutBase ==
    /\ pc = "checkout_base"
    /\ Issue("git checkout base")
    /\ \/ /\ CanSwitch(tips[BaseBranch])
          /\ SwitchTo(BaseBranch, tips[BaseBranch])
          /\ pc' = "pull"
          /\ UNCHANGED <<tips, trackBase>>
       \/ Raise /\ UNCHANGED gitVars
    /\ Inside /\ Locals /\ StepFrame /\ UNCHANGED hubVars

\* line 262: git pull --ff-only origin base_branch; the fetch updates the
\* remote-tracking ref, the fast-forward the branch and a clean checkout
GitPull ==
    /\ pc = "pull"
    /\ Issue("git pull")
    /\ \/ /\ CanSwitch(origin[BaseBranch])
          /\ trackBase' = origin[BaseBranch]
          /\ tips' = [tips EXCEPT ![head] = origin[BaseBranch]]
          /\ work' = IF Dirty THEN work ELSE origin[BaseBranch]
          /\ index' = IF Dirty THEN index ELSE origin[BaseBranch]
          /\ pc' = "ls_remote"
          /\ UNCHANGED head
       \/ /\ Raise
          /\ trackBase' \in {trackBase, origin[BaseBranch]}
          /\ UNCHANGED <<head, tips, work, index>>
    /\ Inside /\ Locals /\ StepFrame /\ UNCHANGED hubVars

\* line 264, branch_exists_on_remote: git ls-remote; a failed command
\* prints nothing and reads as "no such branch"; a command that cannot be
\* started raises
LsRemote ==
    /\ pc = "ls_remote"
    /\ Issue("git ls-remote")
    /\ \/ origin[Branch] # NoBranch /\ pc' = "checkout_reset"
       \/ origin[Branch] = NoBranch /\ pc' = "checkout_new"
       \/ origin[Branch] # NoBranch /\ pc' = "checkout_new"
       \/ Raise
    /\ Inside /\ Locals /\ StepFrame /\ UNCHANGED <<gitVars, hubVars>>

\* line 268: git checkout -B branch origin/base_branch
GitCheckoutReset ==
    /\ pc = "checkout_reset"
    /\ Issue("git checkout -B")
    /\ \/ /\ CanSwitch(trackBase)
          /\ tips' = [tips EXCEPT ![Branch] = trackBase]
          /\ SwitchTo(Branch, trackBase)
          /\ pc' = "write"
          /\ UNCHANGED trackBase
       \/ Raise /\ UNCHANGED gitVars
    /\ Inside /\ Locals /\ StepFrame /\ UNCHANGED hubVars

\* line 270: git checkout -b branch; fails when the local branch exists
GitCheckoutNew ==
    /\ pc = "checkout_new"
    /\ Issue("git checkout -b")
    /\ \/ /\ tips[Branch] = NoBranch
          /\ tips' = [tips EXCEPT ![Branch] = tips[head]]
          /\ head' = Branch
          /\ pc' = "write"
          /\ UNCHANGED <<work, index, trackBase>>
       \/ Raise /\ UNCHANGED gitVars
    /\ Inside /\ Locals /\ StepFrame /\ UNCHANGED hubVars

\* line 273: write_gradle_property(gradle_path, prop_key, new_value)
WriteProperty ==
    /\ pc = "write"
    /\ \/ /\ work' = WriteProp(work, CurEntry.prop_key, decision.new_value)
          /\ pc' = "add"
       \/ Raise /\ UNCHANGED work
    /\ UNCHANGED <<head, tips, index, trackBase, cmds>>
    /\ Inside /\ Locals /\ StepFrame /\ UNCHANGED hubVars

\* variant of DisplayVersion: the value stored is shown
DisplayVersionAsStored(latest, use_id, new_value) == new_value

\* line 276: latest["version_number"] if use_id else new_value
DisplayVersion(latest, use_id, new_value) ==
    IF use_id THEN latest.version_number ELSE new_value

\* line 277: f"Update {slug} to {display_version}"
CommitMsg(slug, display_version) ==
    <<"Update ", slug, " to ", display_version>>

\* lines 276-279: the commit message is built, then git add
\* gradle.properties
GitAdd ==
    /\ pc = "add"
    /\ commit_msg' = CommitMsg(CurConfig.slug,
                         DisplayVersion(decision.latest, CurConfig.use_id,
                                        decision.new_value))
    /\ Issue("git add")
    /\ \/ index' = work /\ pc' = "diff"
       \/ Raise /\ UNCHANGED index
    /\ UNCHANGED <<head, tips, work, trackBase, pr_title>>
    /\ Inside /\ StepFrame /\ UNCHANGED hubVars

\* variant of GitDiff: a staged change goes straight to the push
GitDiffThenPush ==
    /\ pc = "diff"
    /\ Issue("git diff")
    /\ \/ index = tips[head] /\ pc' = "no_change"
       \/ index # tips[head] /\ pc' = "push"
    /\ Inside /\ Locals /\ StepFrame /\ UNCHANGED <<gitVars, hubVars>>

\* lines 282-283: git diff --cached --quiet; 0 when the index equals the
\* branch's commit, 1 when it differs, another non-zero code on an error;
\* a command that cannot be started raises
GitDiff ==
    /\ pc = "diff"
    /\ Issue("git diff")
    /\ \/ index = tips[head] /\ pc' = "no_change"
       \/ index # tips[head] /\ pc' = "commit"
       \/ index = tips[head] /\ pc' = "commit"
       \/ Raise
    /\ Inside /\ Locals /\ StepFrame /\ UNCHANGED <<gitVars, hubVars>>

\* lines 284-286: git checkout base_branch, return False
NoChangeCheckout ==
    /\ pc = "no_change"
    /\ Issue("git checkout base")
    /\ \/ /\ CanSwitch(tips[BaseBranch])
          /\ SwitchTo(BaseBranch, tips[BaseBranch])
          /\ Finished(dep, "False", "no_change")
          /\ UNCHANGED <<tips, trackBase>>
       \/ Raise /\ Inside /\ Locals /\ UNCHANGED gitVars
    /\ StepFrame /\ UNCHANGED hubVars

\* line 288: git commit; fails when nothing is staged
GitCommit ==
    /\ pc = "commit"
    /\ Issue("git commit")
    /\ \/ /\ index # tips[head]
          /\ tips' = [tips EXCEPT ![head] = index]
          /\ pc' = "push"
       \/ Raise /\ UNCHANGED tips
    /\ UNCHANGED <<head, work, index, trackBase>>
    /\ Inside /\ Locals /\ StepFrame /\ UNCHANGED hubVars

\* lines 289-292: git push --force-with-lease origin branch; the remote
\* takes the local branch or rejects the push; then pr_title = commit_msg
GitPush ==
    /\ pc = "push"
    /\ Issue("git push")
    /\ \/ /\ origin' = [origin EXCEPT ![Branch] = tips[Branch]]
          /\ pr_title' = commit_msg
          /\ pc' = "pr_view"
       \/ Raise /\ UNCHANGED <<origin, pr_title>>
    /\ UNCHANGED <<pr, commit_msg>>
    /\ Inside /\ StepFrame /\ UNCHANGED gitVars

\* line 304, pr_exists: gh pr view; True only when the command succeeds
\* and reports the state OPEN; a command that cannot be started (gh not
\* on PATH) raises out of pr_exists
PrView ==
    /\ pc = "pr_view"
    /\ Issue("gh pr view")
    /\ \/ pr[Branch] = "OPEN" /\ pc' = "pr_edit"
       \/ pr[Branch] # "OPEN" /\ pc' = "pr_create"
       \/ pr[Branch] = "OPEN" /\ pc' = "pr_create"
       \/ Raise
    /\ Inside /\ Locals /\ StepFrame /\ UNCHANGED <<gitVars, hubVars>>

\* line 306: gh pr edit branch
PrEdit ==
    /\ pc = "pr_edit"
    /\ Issue("gh pr edit")
    /\ \/ pr[Branch] # "NONE" /\ pc' = "final_checkout"
       \/ Raise
    /\ Inside /\ Locals /\ StepFrame /\ UNCHANGED <<gitVars, hubVars>>

\* lines 309-320: gh pr create --base base_branch --head branch; the
\* service refuses a second open pull request for the branch
PrCreate ==
    /\ pc = "pr_create"
    /\ Issue("gh pr create")
    /\ \/ /\ pr[Branch] # "OPEN"
          /\ pr' = [pr EXCEPT ![Branch] = "OPEN"]
          /\ pc' = "final_checkout"
       \/ Raise /\ UNCHANGED pr
    /\ UNCHANGED origin
    /\ Inside /\ Locals /\ StepFrame /\ UNCHANGED gitVars

\* lines 322-323: git checkout base_branch, return True
FinalCheckout ==
    /\ pc = "final_checkout"
    /\ Issue("git checkout base")
    /\ \/ /\ CanSwitch(tips[BaseBranch])
          /\ SwitchTo(BaseBranch, tips[BaseBranch])
          /\ Finished(dep, "True", "updated")
          /\ UNCHANGED <<tips, trackBase>>
       \/ Raise /\ Inside /\ Locals /\ UNCHANGED gitVars
    /\ StepFrame /\ UNCHANGED hubVars

\* lines 394-397 and safe_checkout: git checkout -f base_branch, its
\* return code ignored, then continue; when subprocess.run itself raises
\* in safe_checkout (line 192) nothing catches it: main ends there with
\* the exception, exit status 1, nothing more attempted or printed
Except ==
    /\ pc = "except"
    /\ \/ /\ head' = BaseBranch
          /\ work' = tips[BaseBranch]
          /\ index' = tips[BaseBranch]
          /\ Finished(dep, "raised", "error_restored")
          /\ UNCHANGED exit_code
       \/ /\ UNCHANGED <<head, work, index>>
          /\ Finished(dep, "raised", "error_not_restored")
          /\ UNCHANGED exit_code
       \/ /\ UNCHANGED <<head, work, index, results, updated>>
          /\ exit_code' = "1"
          /\ pc' = "idle"
          /\ all_versions' = <<>> /\ decision' = Pending
          /\ commit_msg' = <<>> /\ pr_title' = <<>>
    /\ UNCHANGED <<tips, trackBase, cmds>>
    /\ UNCHANGED <<dep, reported, manifest, props, queried, runs>>
    /\ UNCHANGED <<selVars, writeVars, startVars, detectVars>>
    /\ UNCHANGED hubVars

\* lines 399-400: the loop is over, the count is printed, main returns
Finish ==
    /\ pc = "loop" /\ dep = Len(manifest)
    /\ reported' = updated
    /\ exit_code' = "0"
    /\ pc' = "idle"
    /\ UNCHANGED <<dep, updated, manifest, props, results, runs>>
    /\ UNCHANGED <<pdVars, gitVars, hubVars, selVars, writeVars, startVars,
                 detectVars>>

\* the keys whose pin someone else moves on the base branch
BumpedKeys == {KeyNames[1]}

\* someone else commits to the base branch on the remote (a merge, a
\* manual version bump), rewriting the key's line as the writer does
ExternalBaseUpdate ==
    /\ pc # "off"
    /\ \E k \in BumpedKeys, v \in {"v2"} :
          LET bumped == WriteProp(origin[BaseBranch], k, v)
          IN  /\ bumped # origin[BaseBranch]
              /\ origin' = [origin EXCEPT ![BaseBranch] = bumped]
    /\ UNCHANGED <<pr, mainVars, pdVars, gitVars, selVars, writeVars, startVars,
                 detectVars>>

\* someone else closes (or merges) the open pull request of a branch
ExternalClosePR ==
    /\ pc # "off"
    /\ \E b \in DepBranches :
          /\ pr[b] = "OPEN"
          /\ pr' = [pr EXCEPT ![b] = "CLOSED"]
    /\ UNCHANGED <<origin, mainVars, pdVars, gitVars, selVars, writeVars, startVars,
                 detectVars>>

Next ==
    \/ StartRun \/ NextDependency \/ Query \/ Decide
    \/ GitCheckoutBase \/ GitPull \/ LsRemote \/ GitCheckoutReset
    \/ GitCheckoutNew \/ WriteProperty \/ GitAdd \/ GitDiff
    \/ NoChangeCheckout \/ GitCommit \/ GitPush \/ PrView \/ PrEdit
    \/ PrCreate \/ FinalCheckout \/ Except \/ Finish
    \/ ExternalBaseUpdate \/ ExternalClosePR

Spec == Init /\ [][Next]_vars

\* runs of main on a manifest whose keys share a slug
SpecSharedSlug == InitSharedSlug /\ [][Next]_vars

(***************************************************************************)
(* Properties of the selector (specification SpecSelect).                  *)
(***************************************************************************)
\* the tier order of the data model: release < beta < alpha, a release
\* without a tier counts as release, any other tier as least stable
TierRank(t) ==
    CASE t = "release" -> 0
      [] t = NoType -> 0
      [] t = "beta" -> 1
      [] OTHER -> 2

\* index of the first release of vs that carries the pinned value p, 0 if none
FirstMatch(vs, p) ==
    IF \E i \in 1..Len(vs) : p \in {vs[i].id, vs[i].version_number}
    THEN CHOOSE i \in 1..Len(vs) :
            /\ p \in {vs[i].id, vs[i].version_number}
            /\ \A j \in 1..(i - 1) : p \notin {vs[j].id, vs[j].version_number}
    ELSE 0

\* rank of the current tier: that of the first match when it is one of the
\* three tiers (or left out), release otherwise
CurrentTierRank(vs, p) ==
    LET m == FirstMatch(vs, p)
    IN  IF m = 0 THEN 0
        ELSE IF vs[m].version_type \in {"release", "beta", "alpha", NoType}
             THEN TierRank(vs[m].version_type)
             ELSE 0

\* release i of the response vs may be proposed under the stability policy
\* when p is pinned
EligibleIn(vs, p, i) ==
    TierRank(vs[i].version_type) <= CurrentTierRank(vs, p)

Eligible(i) == EligibleIn(sel_versions, sel_pinned, i)

SelDecided == sel_out.outcome # "pending"

\* C1: whenever an update candidate is decided on, its stability rank is at
\* most the rank of the current tier derived from the pinned value.
C1_NeverDowngradesStability ==
    sel_out.outcome = "update" =>
        TierRank(sel_out.latest.version_type)
            <= CurrentTierRank(sel_versions, sel_pinned)

\* an update is proposed while a less stable release of the response was
\* left aside, the pinned release being a beta
C1_Witness ==
    /\ sel_out.outcome = "update"
    /\ CurrentTierRank(sel_versions, sel_pinned) = 1
    /\ \E i \in 1..Len(sel_versions) : ~Eligible(i)

\* C6 as stated: the pinned value matches a release-tier release and a beta
\* stands earlier in the response; then no update is signalled.
C6_Original ==
    (/\ SelDecided
     /\ \E m \in 1..Len(sel_versions) :
          /\ sel_pinned \in {sel_versions[m].id, sel_versions[m].version_number}
          /\ TierRank(sel_versions[m].version_type) = 0
          /\ \E b \in 1..(m - 1) : sel_versions[b].version_type = "beta")
    => sel_out.outcome # "update"

\* the case of C6 with the tier taken from the first match
C6_Case ==
    LET m == FirstMatch(sel_versions, sel_pinned)
    IN  /\ m # 0
        /\ TierRank(sel_versions[m].version_type) = 0
        /\ \E b \in 1..(m - 1) : sel_versions[b].version_type = "beta"

\* C6 (amended): when the first release matching the pinned value is
\* release-tier and a beta stands earlier in the response, the beta is never
\* proposed; the selector answers "up to date" exactly when no release-tier
\* release precedes the matched one, and otherwise proposes the first
\* release-tier release of the response.
C6_BetaNotProposedOnRelease ==
    (SelDecided /\ C6_Case) =>
        LET m == FirstMatch(sel_versions, sel_pinned)
            newer == {r \in 1..(m - 1) :
                        TierRank(sel_versions[r].version_type) = 0}
        IN  /\ sel_out.outcome \in {"up_to_date", "update"}
            /\ TierRank(sel_out.latest.version_type) = 0
            /\ (sel_out.outcome = "up_to_date") <=> (newer = {})
            /\ sel_out.outcome = "update" =>
                 \E r \in newer :
                    /\ sel_out.latest = sel_versions[r]
                    /\ \A q \in newer : r <= q

\* a release newer than the pinned release is proposed past a still newer beta
C6_Witness ==
    /\ C6_Case
    /\ sel_out.outcome = "update"
    /\ sel_versions[1].version_type = "beta"

\* C7: the release decided on is the first one, in response order, that
\* passes the stability filter; and when the pinned release is a beta, a
\* beta that does not carry the pinned value and has no eligible release
\* before it is the update proposed, older releases notwithstanding.
C7_FirstEligibleSelected ==
    SelDecided =>
        /\ sel_out.outcome \in {"update", "up_to_date"} =>
             \E i \in 1..Len(sel_versions) :
                /\ sel_out.latest = sel_versions[i]
                /\ Eligible(i)
                /\ \A j \in 1..(i - 1) : ~Eligible(j)
        /\ \A k \in 1..Len(sel_versions) :
             (/\ FirstMatch(sel_versions, sel_pinned) > k
              /\ sel_versions[FirstMatch(sel_versions, sel_pinned)].version_type
                    = "beta"
              /\ sel_versions[k].version_type = "beta"
              /\ \A j \in 1..(k - 1) : ~Eligible(j))
             => /\ sel_out.outcome = "update"
                /\ sel_out.latest = sel_versions[k]

\* pinned beta, a newer beta first among the eligible, an older release behind
C7_Witness ==
    /\ sel_out.outcome = "update"
    /\ Len(sel_versions) = 3
    /\ sel_versions[1].version_type = "alpha"
    /\ sel_versions[2].version_type = "beta"
    /\ sel_out.latest = sel_versions[2]
    /\ FirstMatch(sel_versions, sel_pinned) = 3
    /\ sel_versions[3].version_type = "beta"

(***************************************************************************)
(* Properties of the writer (specification SpecWrite).                     *)
(***************************************************************************)
\* lines of the file before and after the call
LinesBefore == SplitLinesKeepEnds(w_orig)
LinesAfter == SplitLinesKeepEnds(w_file)

\* the lines the call changed
ChangedLines ==
    {i \in 1..Len(LinesBefore) :
        i > Len(LinesAfter) \/ LinesAfter[i] # LinesBefore[i]}

\* line i of the original file has the key, as the writer's pattern reads it
KeyLine(i) == PatternMatch(w_key, LinesBefore[i])

\* C9: the call changes at most one line, and only the first line whose
\* key matches; the number and order of lines and every other line stay as
\* they were; without a matching line the file is byte-identical.
C9_WriteChangesAtMostFirstMatch ==
    w_done =>
        /\ Len(LinesAfter) = Len(LinesBefore)
        /\ Cardinality(ChangedLines) <= 1
        /\ \A i \in ChangedLines :
              /\ KeyLine(i)
              /\ \A j \in 1..(i - 1) : ~KeyLine(j)
        /\ (\A i \in 1..Len(LinesBefore) : ~KeyLine(i)) => w_file = w_orig

\* the key stands on two lines: the first was rewritten, the second kept
C9_Witness ==
    /\ w_done
    /\ \E i, j \in 1..Len(LinesBefore) :
          /\ i < j
          /\ KeyLine(i) /\ KeyLine(j)
          /\ ChangedLines = {i}
          /\ LinesAfter[j] = LinesBefore[j]

(***************************************************************************)
(* Properties of the run (specification Spec).                             *)
(***************************************************************************)
\* the last attempt recorded in this run
LastResult == results[Len(results)]

\* number of attempts of this run that returned True
ReturnedTrue == Cardinality({j \in 1..Len(results) : results[j].ret = "True"})

\* the commands issued so far in the attempt at hand
Issued(c) == \E n \in 1..Len(cmds) : cmds[n] = c

\* a step of main or of process_dependency
RunStep ==
    \/ NextDependency \/ Query \/ Decide \/ GitCheckoutBase \/ GitPull
    \/ LsRemote \/ GitCheckoutReset \/ GitCheckoutNew \/ WriteProperty
    \/ GitAdd \/ GitDiff \/ NoChangeCheckout \/ GitCommit \/ GitPush
    \/ PrView \/ PrEdit \/ PrCreate \/ FinalCheckout \/ Except \/ Finish

\* C2 as stated: the dependency's branch already carries this very update
\* from an earlier run, its pull request is open and the base branch is as
\* it was when the properties were read; then this run makes no commit.
\* (At "push" the commit of this attempt is made and not yet pushed.)
C2_Original ==
    ~ /\ pc = "push"
      /\ PropsOf(origin[BaseBranch]) = props
      /\ origin[Branch] = WriteProp(origin[BaseBranch], CurEntry.prop_key,
                                    decision.new_value)
      /\ origin[Branch] # origin[BaseBranch]
      /\ pr[Branch] = "OPEN"

\* C3 as stated: whenever main is between two dependencies or past the
\* last one, the active checkout is the base branch.
C3_Original == pc \in {"loop", "idle"} => head = BaseBranch

\* C4 as stated: the attempts of a run are the manifest's entries, each
\* once and in order, whatever raised; the counter is the number of
\* attempts that returned True; a started run can always take its next
\* step, and when it has ended it ended with status 0 after attempting
\* every entry and printed that number.
C4_Original ==
    /\ \A j \in 1..Len(results) : results[j].dep = j
    /\ Len(results) \in {dep - 1, dep}
    /\ pc \in {"loop", "idle"} => Len(results) = dep
    /\ updated = ReturnedTrue
    /\ pc \notin {"idle", "off"} => ENABLED RunStep
    /\ exit_code \in {"none", "0"}
    /\ (pc = "idle" /\ exit_code = "0") =>
          /\ Len(results) = Len(manifest)
          /\ reported = ReturnedTrue

\* the pinned value p is the id or the version string of the first
\* eligible release of vs
TopCarriesPinned(vs, p) ==
    \E i \in 1..Len(vs) :
        /\ EligibleIn(vs, p, i)
        /\ \A j \in 1..(i - 1) : ~EligibleIn(vs, p, j)
        /\ p \in {vs[i].id, vs[i].version_number}

\* process_dependency returns False from the step at hand, having issued
\* no command and touched neither the checkout nor the remote
ReturnsFalseUntouched ==
    /\ pc' = "loop"
    /\ Len(results') = Len(results) + 1
    /\ results'[Len(results')].ret = "False"
    /\ cmds' = <<>>
    /\ UNCHANGED <<gitVars, hubVars>>

C8_NothingToDo ==
    [][/\ (/\ pc = "loop" /\ dep' = dep + 1
           /\ props[manifest[dep'].prop_key] = None)
          => (ReturnsFalseUntouched /\ ~queried')
       /\ (/\ pc = "select" /\ pc' # "select"
           /\ \A i \in 1..Len(all_versions) :
                 ~EligibleIn(all_versions, current_value, i))
          => ReturnsFalseUntouched]_vars

\* a run in which the first key was missing and the second dependency had
\* no eligible release
C8_Witness ==
    /\ pc = "loop"
    /\ Len(results) = 2
    /\ results[1].how = "missing"
    /\ results[2].how = "no_stable"
    /\ cmds = <<>>

\* C10 as stated: gh pr create is never issued for a branch that has an
\* open pull request. (At "pr_create" the command is the next step.)
C10_Original == pc = "pr_create" => pr[Branch] # "OPEN"

(***************************************************************************)
(* Properties of main's start (specification SpecStart).                   *)
(***************************************************************************)
\* no base branch
NoBase == <<"<none>">>
\* detect_base_branch ended with the exception of a git command that could
\* not be started
Aborted == <<"<aborted>">>

\* HEAD is on a named branch
OnNamedBranch == Strip(d_rev) # <<"HEAD">>

\* line i of the listing names a remote branch of origin (not the
\* "origin/HEAD -> ..." pointer), whose checkout is attempted
RemoteLineAt(i) ==
    LET l == Strip(d_points[i])
    IN  /\ d_points_rc = 0
        /\ ~ \E j \in 1..Len(l) : l[j] = "->"
        /\ l # <<>> /\ l[1] = "origin/"

\* ... and the attempt does not fail with a non-zero status: the branch
\* is checked out, or git cannot be started
RemoteBranchAt(i) ==
    /\ RemoteLineAt(i)
    /\ Tail(Strip(d_points[i])) \in d_co_ok \cup d_raises

\* the outcome of git checkout -B for branch b
FromCheckout(b) ==
    IF b \in d_raises THEN Aborted
    ELSE IF b \in d_co_ok THEN b
    ELSE NoBase

\* the value of environment variable n, when it is not empty, not HEAD and
\* not <digits>/merge
UsableEnv(n) ==
    LET v == Strip(d_env[n])
    IN  /\ v # <<>> /\ v # <<"HEAD">>
        /\ ~ (/\ Len(v) >= 3
              /\ SubSeq(v, Len(v) - 1, Len(v)) = <<"/", "merge">>
              /\ \A j \in 1..(Len(v) - 2) : v[j] \in {"1", "2"})

\* the branch an environment variable gives: its value when the checkout
\* succeeds, none (the run exits) when it fails
FromEnv(n) == FromCheckout(Strip(d_env[n]))

\* the base branch by the three sources in priority order
ExpectedBase ==
    IF OnNamedBranch THEN Strip(d_rev)
    ELSE IF PointsCommand \in d_raises THEN Aborted
    ELSE IF \E i \in 1..Len(d_points) : RemoteBranchAt(i)
    THEN LET i == CHOOSE i \in 1..Len(d_points) :
                     /\ RemoteBranchAt(i)
                     /\ \A j \in 1..(i - 1) : ~RemoteBranchAt(j)
         IN  FromCheckout(Tail(Strip(d_points[i])))
    ELSE IF UsableEnv("GITHUB_BASE_REF") THEN FromEnv("GITHUB_BASE_REF")
    ELSE IF UsableEnv("GITHUB_REF_NAME") THEN FromEnv("GITHUB_REF_NAME")
    ELSE NoBase

\* detect_base_branch was called and git rev-parse did not raise
DetectRan == d_rev # <<>> /\ d_rev # RevRaised

\* a file is missing or a required property is absent
FatalConfiguration ==
    \/ ~m_config_exists \/ ~m_gradle_exists
    \/ m_minecraft_version = None \/ m_mod_loader = None

\* process_dependency has not been called
NothingProcessed ==
    /\ m_calls = 0
    /\ \A n \in 1..Len(m_cmds) : m_cmds[n] # "process_dependency"

\* the run does not reach its loop, has not called process_dependency and,
\* when it has ended, ended with status 1; it is not stuck before its end
StopsBeforeLoop ==
    /\ m_pc # "loop" /\ NothingProcessed
    /\ m_pc = "exited" => m_exit = "1"
    /\ m_pc # "exited" => ENABLED NextStart

\* C11: with a missing file, an absent required property or no base branch
\* the run never reaches its loop, process_dependency is not called, and
\* the status is non-zero when the run has ended.
C11_FatalBeforeAnyDependency ==
    /\ FatalConfiguration => StopsBeforeLoop
    /\ (DetectRan /\ ExpectedBase \in {NoBase, Aborted}) => StopsBeforeLoop
    /\ m_exit \in {"none", "0", "1"}

\* the run ended with status 1 on a detached HEAD whose environment named
\* a branch that could not be checked out
C11_Witness ==
    /\ m_pc = "exited" /\ m_exit = "1"
    /\ ~FatalConfiguration /\ m_config_json = "object"
    /\ DetectRan /\ ~OnNamedBranch
    /\ UsableEnv("GITHUB_BASE_REF")
    /\ ExpectedBase = NoBase
    /\ m_cmds[Len(m_cmds)] = "git checkout -B"

\* C12: detect_base_branch returns the branch of the highest-priority
\* source that yields one (named branch, then first checkable origin/*
\* line, then GITHUB_BASE_REF, then GITHUB_REF_NAME), and it does not
\* return when the checkout of a usable environment ref fails, when no
\* source yields a branch, or when a git command cannot be started: the
\* run ends with status 1 there. m_base is empty until detect_base_branch
\* returns.
C12_BaseBranchPriority ==
    DetectRan =>
        /\ m_base # <<>> =>
              (m_base = ExpectedBase /\ m_base \notin {NoBase, Aborted})
        /\ m_pc = "loop" => m_base # <<>>
        /\ (m_pc = "exited" /\ m_exit = "0") => m_base # <<>>
        /\ (m_pc = "exited" /\ m_base = <<>>) =>
              (m_exit = "1" /\ ExpectedBase \in {NoBase, Aborted})
        /\ ExpectedBase \in {NoBase, Aborted} =>
              (m_base = <<>> /\ m_pc # "loop")

\* detached HEAD, the only listed line is the pointer line,
\* GITHUB_BASE_REF is a merge ref and GITHUB_REF_NAME gives the branch
C12_Witness ==
    /\ m_pc = "loop"
    /\ d_rev = <<"HEAD", "\n">>
    /\ d_points_rc = 0 /\ Len(d_points) = 1 /\ HasArrow(d_points[1])
    /\ d_env["GITHUB_BASE_REF"] = <<"1", "2", "/", "merge">>
    /\ d_env["GITHUB_REF_NAME"] = <<" ", "dev", " ">>
    /\ m_base = <<"dev">>

(***************************************************************************)
(* Properties of the reconciliation steps (specification Spec).            *)
(***************************************************************************)
\* positions of process_dependency after the write of line 273
AfterWrite ==
    {"add", "diff", "no_change", "commit", "push", "pr_view", "pr_edit",
     "pr_create", "final_checkout"}
\* ... after the commit message was built
AfterMessage == AfterWrite \ {"add"}
\* ... after the commit
AfterCommit == {"push", "pr_view", "pr_edit", "pr_create", "final_checkout"}
\* ... after the push, when the pull request's title was set
AfterTitle == {"pr_view", "pr_edit", "pr_create", "final_checkout"}

\* "Update {slug} to {version string}" for the release selected
TitleWithVersionString ==
    <<"Update ", CurEntry.slug, " to ", decision.latest.version_number>>

\* the value process_dependency is to store for the release selected
ExpectedStored ==
    IF CurEntry.kind = "obj" /\ CurEntry.use_id
    THEN decision.latest.id
    ELSE decision.latest.version_number

\* line l is a line the writer takes for key k's: it starts with the key,
\* "=" following at once or after blanks
IsKeyLine(l, k) ==
    /\ Len(l) >= 2 /\ l[1] = k
    /\ \E n \in 2..Len(l) :
          l[n] = "=" /\ \A j \in 2..(n - 1) : l[j] = " "

\* text new is text old with its first line for key k, when it has one,
\* rewritten as k=v, and nothing else changed
FirstKeyLineSetTo(old, new, k, v) ==
    LET lo == SplitLinesKeepEnds(old)
        ln == SplitLinesKeepEnds(new)
        at == {i \in 1..Len(lo) : IsKeyLine(lo[i], k)}
    IN  /\ Len(ln) = Len(lo)
        /\ \A i \in 1..Len(lo) :
              IF i \in at /\ \A j \in at : i <= j
              THEN ln[i] = <<k, "=", v, "\n">>
              ELSE ln[i] = lo[i]

\* the titles of C13
C13_Titles ==
    /\ pc \in AfterMessage => commit_msg = TitleWithVersionString
    /\ pc \in AfterTitle => pr_title = TitleWithVersionString

\* C13: the value written (into the first line the writer takes for the
\* key's; a file without such a line is left as it is) is the selected
\* release's id when the dependency has use_id and its version string
\* otherwise; the commit message and the pull request's title are
\* "Update {slug} to {version string}" in both cases.
C13_StoredValueAndTitle ==
    /\ []C13_Titles
    /\ [][(pc = "write" /\ pc' = "add") =>
            FirstKeyLineSetTo(work, work', CurEntry.prop_key,
                              ExpectedStored)]_vars

\* a dependency with use_id: the id was stored, pushed, and the pull
\* request titled with the version string
C13_Witness ==
    /\ pc = "final_checkout"
    /\ CurEntry.use_id
    /\ work = PlainLine("dep1", "v1") \o PlainLine("dep2", "i2")
    /\ origin[Branch] = work
    /\ origin[BaseBranch] = PlainLine("dep1", "v1") \o PlainLine("dep2", "i1")
    /\ pr_title = <<"Update ", "s2", " to ", "v2">>

\* a is a prefix of b
IsPrefix(a, b) == Len(a) <= Len(b) /\ SubSeq(b, 1, Len(a)) = a

\* the commands up to the staged-diff check
UpToDiff ==
    {<<"git checkout base", "git pull", "git ls-remote", c, "git add",
       "git diff">> : c \in {"git checkout -B", "git checkout -b"}}
\* the commands of a reconciliation that ends in NO_CHANGE
NoChangeOrder == {o \o <<"git checkout base">> : o \in UpToDiff}
\* the commands of a reconciliation that returns True
UpdateOrder ==
    {o \o <<"git commit", "git push", "gh pr view", p, "git checkout base">> :
        o \in UpToDiff, p \in {"gh pr edit", "gh pr create"}}

\* C14: the commands of one reconciliation are issued in the order base
\* checkout, pull, branch create-or-reset, (write), add, diff, then either
\* the base checkout of NO_CHANGE or commit, push, PR view, PR edit/create,
\* base checkout; what is staged is the file as written, NO_CHANGE is
\* taken with nothing staged, the commit is of what was staged and the
\* pull request commands follow the push of that commit; NO_CHANGE returns
\* False on the base branch without commit, push or PR command; True is
\* returned only after the whole update order.
C14_StepOrder ==
    /\ \E o \in NoChangeOrder \cup UpdateOrder : IsPrefix(cmds, o)
    /\ pc = "write" =>
          cmds[Len(cmds)] \in {"git checkout -B", "git checkout -b"}
    /\ pc \in AfterMessage => index = work
    /\ pc = "no_change" => index = tips[head]
    /\ pc \in AfterCommit => (head = Branch /\ tips[Branch] = index)
    /\ pc \in AfterTitle => origin[Branch] = tips[Branch]
    /\ (pc = "loop" /\ results # <<>> /\ LastResult.how = "no_change") =>
          /\ LastResult.ret = "False"
          /\ cmds \in NoChangeOrder
          /\ head = BaseBranch
    /\ (pc = "loop" /\ results # <<>> /\ LastResult.ret = "True") =>
          /\ cmds \in UpdateOrder
          /\ head = BaseBranch

\* True was returned after reset of an existing branch, commit, push and
\* an edit of the open pull request
C14_Witness ==
    /\ pc = "loop" /\ results # <<>>
    /\ LastResult.ret = "True"
    /\ cmds = <<"git checkout base", "git pull", "git ls-remote",
                "git checkout -B", "git add", "git diff", "git commit",
                "git push", "gh pr view", "gh pr edit", "git checkout base">>

(***************************************************************************)
(* Properties of the filter and the current tier (SpecSelect).             *)
(***************************************************************************)
\* the releases of the response whose tier rank is at most r, in order
RankAtMost(r) ==
    SelectSeq(sel_versions, LAMBDA v : TierRank(v.version_type) <= r)

\* C15: the filtered list is exactly the releases whose tier rank is at
\* most the current tier's: releases only for rank 0, releases and betas
\* for rank 1, everything for rank 2; an unrecognized tier ranks as the
\* least stable one, a release without the field as a release.
C15_FilterByTierRank ==
    SelDecided =>
        /\ sel_filtered = RankAtMost(CurrentTierRank(sel_versions, sel_pinned))
        /\ \A i \in 1..Len(sel_filtered) :
              LET t == sel_filtered[i].version_type
              IN  CASE sel_max_rank = 0 -> t \in {"release", NoType}
                    [] sel_max_rank = 1 -> t \in {"release", NoType, "beta"}
                    [] OTHER -> TRUE
        /\ sel_max_rank = 2 => sel_filtered = sel_versions
        /\ \A i \in 1..Len(sel_versions) :
              /\ sel_versions[i].version_type = "snapshot" =>
                    ((\E k \in 1..Len(sel_filtered) :
                         sel_filtered[k] = sel_versions[i])
                     <=> sel_max_rank = 2)
              /\ sel_versions[i].version_type = NoType =>
                    \E k \in 1..Len(sel_filtered) :
                        sel_filtered[k] = sel_versions[i]

\* a beta is pinned; a release without the field is kept and a release of
\* an unrecognized tier is dropped
C15_Witness ==
    /\ SelDecided
    /\ sel_max_rank = 1
    /\ Len(sel_versions) = 3 /\ Len(sel_filtered) = 2
    /\ \E i \in 1..3 : sel_versions[i].version_type = "snapshot"
    /\ \E i \in 1..2 : sel_filtered[i].version_type = NoType

\* the tier of release i is one of the three the ranking knows (a release
\* without the field counting as a release)
Recognized(i) ==
    sel_versions[i].version_type \in {"release", "beta", "alpha", NoType}

\* C16: the current tier is that of the first release, in response order,
\* whose id or version string is the pinned value; without a match, or
\* when the matched release's tier is unrecognized, it is release, and
\* then exactly the release-tier candidates are eligible.
C16_CurrentTierFromFirstMatch ==
    SelDecided =>
        LET m == FirstMatch(sel_versions, sel_pinned)
        IN  /\ (m # 0 /\ Recognized(m)) =>
                  sel_max_rank = TierRank(sel_versions[m].version_type)
            /\ (m = 0 \/ ~Recognized(m)) =>
                  /\ sel_max_rank = 0
                  /\ sel_filtered =
                        SelectSeq(sel_versions,
                                  LAMBDA v : v.version_type
                                                \in {"release", NoType})

\* the pinned value is carried first by a release of an unrecognized tier
\* and later by a beta; only the release-tier candidate is kept
C16_Witness ==
    /\ SelDecided
    /\ Len(sel_versions) = 3
    /\ sel_versions[1].version_type = "snapshot"
    /\ sel_pinned \in {sel_versions[1].id, sel_versions[1].version_number}
    /\ sel_versions[2].version_type = "beta"
    /\ sel_pinned \in {sel_versions[2].id, sel_versions[2].version_number}
    /\ sel_versions[3].version_type = "release"
    /\ sel_filtered = <<sel_versions[3]>>

(***************************************************************************)
(* Properties of key matching, line endings and the round trip             *)
(* (specification SpecWrite).                                              *)
(***************************************************************************)
RECURSIVE SkipLeadingSpaces(_)
SkipLeadingSpaces(line) ==
    IF line # <<>> /\ Head(line) = " "
    THEN SkipLeadingSpaces(Tail(line))
    ELSE line

\* the line's key is exactly key: after any spaces the key, any spaces,
\* then "="
LineHasKey(line, key) ==
    LET l == SkipLeadingSpaces(line)
    IN  /\ Len(l) > Len(key)
        /\ SubSeq(l, 1, Len(key)) = key
        /\ \E n \in Len(key)..(Len(l) - 1) :
              /\ \A j \in (Len(key) + 1)..n : l[j] = " "
              /\ l[n + 1] = "="

\* C17 as stated: the first line whose key is the given key, spaces before
\* the key and between key and "=" ignored, is replaced by key=new_value,
\* and a line with another key is left as it was.
C17_Original ==
    w_done =>
        \A i \in 1..Len(LinesBefore) :
            /\ (/\ LineHasKey(LinesBefore[i], w_key)
                /\ \A j \in 1..(i - 1) : ~LineHasKey(LinesBefore[j], w_key))
               => /\ i <= Len(LinesAfter)
                  /\ IsPrefix(w_key \o <<"=">> \o w_value, LinesAfter[i])
            /\ ~LineHasKey(LinesBefore[i], w_key)
               => /\ i <= Len(LinesAfter)
                  /\ LinesAfter[i] = LinesBefore[i]

\* positions of the CRLF line endings of a text
CRLFs(text) ==
    {i \in 1..(Len(text) - 1) : text[i] = "\r" /\ text[i + 1] = "\n"}
\* positions of the LF line endings that are not part of a CRLF
BareLFs(text) ==
    {i \in 1..Len(text) : text[i] = "\n" /\ (i = 1 \/ text[i - 1] # "\r")}
\* the dominant line ending: CRLF only with strictly more CRLF than bare LF
DominantEnding(text) ==
    IF Cardinality(CRLFs(text)) > Cardinality(BareLFs(text))
    THEN <<"\r", "\n">>
    ELSE <<"\n">>

\* C18: the rewritten line is key=new_value followed by the dominant line
\* ending of the file as it was; a file with CRLF endings and no bare LF
\* has no bare LF afterwards, and a file without CRLF has none afterwards.
C18_LineEndingPreserved ==
    w_done =>
        /\ \A i \in 1..Len(LinesBefore) :
              (KeyLine(i) /\ \A j \in 1..(i - 1) : ~KeyLine(j)) =>
                 LinesAfter[i] =
                    w_key \o <<"=">> \o w_value \o DominantEnding(w_orig)
        /\ (CRLFs(w_orig) # {} /\ BareLFs(w_orig) = {}) =>
              (CRLFs(w_file) # {} /\ BareLFs(w_file) = {})
        /\ CRLFs(w_orig) = {} => CRLFs(w_file) = {}

\* a CRLF file whose last line, the key's, had no line ending
C18_Witness ==
    /\ w_done
    /\ w_orig = <<"\r", "\n", "k", "=">>
    /\ w_file = <<"\r", "\n", "k", "=", "a", "\r", "\n">>

\* C19 as stated: for every key k the reader returned before the call,
\* a fresh read after write(k, v) returns v for k and the value it had for
\* every other key.
C19_Original ==
    (w_read /\ w_key \in DOMAIN w_props) =>
        /\ w_key \in DOMAIN w_reread
        /\ w_reread[w_key] = w_value
        /\ \A k \in DOMAIN w_props \ {w_key} :
              k \in DOMAIN w_reread /\ w_reread[k] = w_props[k]

(***************************************************************************)
(* Properties of runs whose manifest names one slug under two keys         *)
(* (specification SpecSharedSlug).                                         *)
(***************************************************************************)
\* the branch of manifest entry j
BranchOf(j) == DepBranch(manifest[j].slug)

\* C20 as stated: from the moment the reconciliation of a dependency
\* returned True to the end of the run, the dependency's remote branch
\* carries a new value for the dependency's key; no later dependency of
\* the run resets or overwrites it.
C20_Original ==
    \A j \in 1..Len(results) :
        results[j].ret = "True" =>
            /\ origin[BranchOf(j)] # NoBranch
            /\ PropsOf(origin[BranchOf(j)])[manifest[j].prop_key]
                  # props[manifest[j].prop_key]

(***************************************************************************)
(* Properties of the direction of an update (specification SpecSelect).    *)
(***************************************************************************)
\* positions of the response that hold the release selected
SelectedAt == {i \in 1..Len(sel_versions) : sel_versions[i] = sel_out.latest}

\* C21 as stated: when the pinned value matches a release of the response
\* and an update is signalled, the release selected stands strictly before
\* the first release matching the pinned value, and the value to write
\* differs from the pinned value.
C21_Original ==
    (/\ sel_out.outcome = "update"
     /\ FirstMatch(sel_versions, sel_pinned) # 0) =>
        /\ \E i \in SelectedAt : i < FirstMatch(sel_versions, sel_pinned)
        /\ sel_out.new_value # sel_pinned

====
